---- MODULE Spec2Model ----
(***************************************************************************)
(* A model of the LSM-tree engine of lstm-visualizer: the write buffer     *)
(* (MemTable), the sorted runs (SSTable) and the engine (LSMTree) with     *)
(* put / delete / get / flush / compaction / reset.                        *)
(*                                                                         *)
(* Keys are one-letter strings, modelled by their UTF-16 code unit, so     *)
(* that the two orders the code uses are both available: the relational    *)
(* operators < <= >= on strings compare code units (integer order here),   *)
(* String.prototype.localeCompare compares by collation (LocaleCompare).   *)
(* Values are strings.  A run identifier "sstable-<Date.now()>-<random>"   *)
(* is the pair <<time, random>>.                                           *)
(***************************************************************************)
EXTENDS Integers, Sequences, FiniteSets, TLC

VARIABLES
  config,     \* LSMTree.config
  memtable,   \* LSMTree.memtable : [maxSize, data], data an insertion-ordered Map
  levels,     \* LSMTree.levels   : sequence (level 0 first) of sequences of runs
  log,        \* LSMTree.log      : newest first
  metrics,    \* LSMTree.metrics
  now,        \* the value Date.now() returns
  lastOp,     \* history: the last public call and what it returned
  prevOp,     \* history: the public call before the last one
  events,     \* history: the flushes and compactions the last call performed
  latest,     \* history: the last two values written for each key
  nops,       \* history: number of public calls made
  page        \* the App component around the engine: its React state, its
              \* pending timers, the instances they hold, and localStorage

vars == <<config, memtable, levels, log, metrics, now, lastOp, prevOp, events,
          latest, nops, page>>

-----------------------------------------------------------------------------
(* Bounds of the model *)

MaxOps == 3
MaxClock == 1

(* Program constants *)

TOMBSTONE == "__DELETED__"
MEMTABLE_DEFAULT_MAX_SIZE == 5
L0_DEFAULT_MAX_SSTABLES == 3
LEVEL_MAX_SSTABLES_FACTOR == 4
SSTABLE_DEFAULT_MAX_ITEMS == 10
MAX_LEVELS == 5
LOG_MAX == 100

(* JavaScript values *)

Undefined == "undefined"
Null == -1
EmptyKey == 0
Falsy(x) == x = Null \/ x = EmptyKey

(* The keys and values the model draws its inputs from, keys as UTF-16     *)
(* code units: "B" = 66, "a" = 97, "b" = 98.                               *)
Keys == {66, 97}

SortKeys == {66, 97, 98}

Values == {"v1", "v2"}
\* the random suffixes a call can draw
Rand == {0, 1}

Cfg(m, l, f, s, n) ==
  [memtableMaxSize |-> m, l0MaxSSTables |-> l, levelMaxSSTablesFactor |-> f,
   sstableMaxItems |-> s, maxLevels |-> n]

Configs == { Cfg(1, 1, 1, 1, 3), Cfg(2, 1, 2, 2, 2), Cfg(1, 2, 1, 1, 2) }

-----------------------------------------------------------------------------
(* Orders and sorting *)

\* Collation rank of a one-letter key: a < A < b < B < ...
LocaleRank(k) == IF k >= 97 THEN 2 * (k - 97) ELSE 2 * (k - 65) + 1

\* a.localeCompare(b) for keys: negative, zero or positive
LocaleCompare(a, b) == LocaleRank(a) - LocaleRank(b)

\* a.localeCompare(b) for run identifiers: the time part has a fixed number
\* of digits, so the strings compare by time and then by the random suffix
IdLocaleCompare(a, b) == IF a[1] # b[1] THEN a[1] - b[1] ELSE a[2] - b[2]

\* Array.prototype.sort (a stable sort); cmp[i][j] is the comparator's result
\* for the elements at positions i and j
StableSort(s, cmp) ==
  LET n == Len(s)
      Pos(i) == Cardinality({j \in 1..n : \/ cmp[j][i] < 0
                                          \/ cmp[j][i] = 0 /\ j < i}) + 1
  IN  [p \in 1..n |-> s[CHOOSE i \in 1..n : Pos(i) = p]]

EntryCmp(x, y) == LocaleCompare(x[1], y[1])

\* entries.sort((a, b) => a[0].localeCompare(b[0]))
SortEntries(s) ==
  StableSort(s, [i \in 1..Len(s) |-> [j \in 1..Len(s) |-> EntryCmp(s[i], s[j])]])

RECURSIVE Pow(_, _)
Pow(b, x) == IF x = 0 THEN 1 ELSE b * Pow(b, x - 1)

Reverse(s) == [i \in 1..Len(s) |-> s[Len(s) + 1 - i]]

-----------------------------------------------------------------------------
(* SSTable *)

NewSSTable(id, level, data) ==
  [id |-> id, level |-> level, data |-> data,
   minKey |-> IF Len(data) > 0 THEN data[1][1] ELSE Null,
   maxKey |-> IF Len(data) > 0 THEN data[Len(data)][1] ELSE Null]

\* binary search; indices are 1-based here, the midpoint is the same element
RECURSIVE BinarySearch(_, _, _, _)
BinarySearch(data, key, low, high) ==
  IF low > high THEN Undefined
  ELSE LET mid == (low + high) \div 2
       IN  IF data[mid][1] = key THEN data[mid][2]
           ELSE IF data[mid][1] < key THEN BinarySearch(data, key, mid + 1, high)
           ELSE BinarySearch(data, key, low, mid - 1)

sstableGet(data, key) == BinarySearch(data, key, 1, Len(data))

SSTableGet(t, key) == sstableGet(t.data, key)

Overlaps(t, minKey, maxKey) ==
  IF Falsy(t.minKey) \/ Falsy(t.maxKey) \/ Falsy(minKey) \/ Falsy(maxKey)
  THEN FALSE
  ELSE t.minKey <= maxKey /\ t.maxKey >= minKey

-----------------------------------------------------------------------------
(* MemTable: data is the Map, as its entries in insertion order.           *)
(* (mutationOrder is written but never read, and is left out.)             *)

NewMemTable(maxSize) == [maxSize |-> maxSize, data |-> << >>]

MapHas(d, key) == \E i \in 1..Len(d) : d[i][1] = key

MapGet(d, key) ==
  IF MapHas(d, key) THEN d[CHOOSE i \in 1..Len(d) : d[i][1] = key][2]
  ELSE Undefined

\* Map.prototype.set: an existing key keeps its place
MapSet(d, key, value) ==
  IF MapHas(d, key)
  THEN [i \in 1..Len(d) |-> IF d[i][1] = key THEN <<key, value>> ELSE d[i]]
  ELSE Append(d, <<key, value>>)

MemTablePut(m, key, value) == [m EXCEPT !.data = MapSet(@, key, value)]

MemTableGet(m, key) == MapGet(m.data, key)

\* a faulty delete that drops the key from the map and writes no tombstone
MemTableDeleteRemoving(m, key) ==
  [m EXCEPT !.data = SelectSeq(@, LAMBDA kv : kv[1] # key)]

MemTableDelete(m, key) == MemTablePut(m, key, TOMBSTONE)

\* a faulty isFull: full only once the buffer exceeds its capacity
MemTableIsFullOffByOne(m) == Len(m.data) > m.maxSize

MemTableIsFull(m) == Len(m.data) >= m.maxSize

\* the sorted entries flush() returns
MemTableFlushData(m) == SortEntries(m.data)

\* a faulty flush that does not clear the buffer
MemTableNotCleared(m) == m

\* the MemTable flush() leaves
MemTableFlushed(m) == [m EXCEPT !.data = << >>]

-----------------------------------------------------------------------------
(* LSMTree.  An engine value e carries the object's fields and, for the    *)
(* call in progress, the clock, the random draws and the history.          *)

ZeroMetrics ==
  [logicalWrites |-> 0, itemsWrittenToSSTables |-> 0, logicalReads |-> 0,
   sstablesAccessedForRead |-> 0, memtableLookupsForRead |-> 0]

\* x || d
OrDefault(x, d) == IF x = 0 THEN d ELSE x

NormalizeConfig(c) ==
  [memtableMaxSize |-> OrDefault(c.memtableMaxSize, MEMTABLE_DEFAULT_MAX_SIZE),
   l0MaxSSTables |-> OrDefault(c.l0MaxSSTables, L0_DEFAULT_MAX_SSTABLES),
   levelMaxSSTablesFactor |->
     OrDefault(c.levelMaxSSTablesFactor, LEVEL_MAX_SSTABLES_FACTOR),
   sstableMaxItems |-> OrDefault(c.sstableMaxItems, SSTABLE_DEFAULT_MAX_ITEMS),
   maxLevels |-> OrDefault(c.maxLevels, MAX_LEVELS)]

AddLog(e, msg) ==
  LET l == <<msg>> \o e.log
  IN  [e EXCEPT !.log = IF Len(l) > LOG_MAX THEN SubSeq(l, 1, Len(l) - 1) ELSE l]

\* generateSSTableId(): Date.now() and a random suffix.  The first identifier
\* of a call takes the suffix drawn for the call, the next ones take fresh
\* suffixes in increasing order.
generateSSTableId(e) == <<e.now, IF e.nid = 0 THEN e.rs ELSE e.nid + 1>>

\* a faulty flush that does not count the entries it writes
FlushMemTableUncounted(e) ==
  IF Len(e.memtable.data) = 0
  THEN AddLog(e, "MemTable is empty, nothing to flush.")
  ELSE LET sstableData == MemTableFlushData(e.memtable)
           newSSTable == NewSSTable(generateSSTableId(e), 0, sstableData)
       IN  [AddLog(e, "Flushing MemTable to L0...")
              EXCEPT !.memtable = MemTableFlushed(@),
                     !.nid = @ + 1,
                     !.levels[1] = Append(@, newSSTable),
                     !.events = Append(@, [kind |-> "flush", run |-> newSSTable])]

\* a faulty flush that puts the new run at the front of level 0
FlushMemTableAtFront(e) ==
  IF Len(e.memtable.data) = 0
  THEN AddLog(e, "MemTable is empty, nothing to flush.")
  ELSE LET sstableData == MemTableFlushData(e.memtable)
           newSSTable == NewSSTable(generateSSTableId(e), 0, sstableData)
       IN  [AddLog(e, "Flushing MemTable to L0...")
              EXCEPT !.memtable = MemTableFlushed(@),
                     !.nid = @ + 1,
                     !.levels[1] = <<newSSTable>> \o @,
                     !.events = Append(@, [kind |-> "flush", run |-> newSSTable]),
                     !.metrics.itemsWrittenToSSTables = @ + Len(sstableData)]

FlushMemTable(e) ==
  IF Len(e.memtable.data) = 0
  THEN AddLog(e, "MemTable is empty, nothing to flush.")
  ELSE LET e1 == AddLog(e, "Flushing MemTable to L0...")
           sstableData == MemTableFlushData(e1.memtable)
           newSSTable == NewSSTable(generateSSTableId(e1), 0, sstableData)
           e2 == [e1 EXCEPT !.memtable = MemTableFlushed(@),
                            !.nid = @ + 1,
                            !.levels[1] = Append(@, newSSTable),
                            !.events = Append(@, [kind |-> "flush",
                                                  run |-> newSSTable])]
           e3 == AddLog(e2, "Flushed MemTable to new SSTable in L0.")
       IN  [e3 EXCEPT !.metrics.itemsWrittenToSSTables = @ + Len(sstableData)]

\* overlappingTablesInTarget after the loop over one source table
RECURSIVE ScanTarget(_, _, _, _, _)
ScanTarget(acc, src, tgt, j, dedup) ==
  IF j > Len(tgt) THEN acc
  ELSE LET t == tgt[j]
           take == /\ Overlaps(t, src.minKey, src.maxKey)
                   /\ (dedup => ~ \E x \in 1..Len(acc) : acc[x].id = t.id)
       IN  ScanTarget(IF take THEN Append(acc, t) ELSE acc, src, tgt, j + 1, dedup)

RECURSIVE ScanSources(_, _, _, _)
ScanSources(acc, srcs, tgt, i) ==
  IF i > Len(srcs) THEN acc
  ELSE LET s == srcs[i]
       IN  IF Falsy(s.minKey) \/ Falsy(s.maxKey)
           THEN ScanSources(acc, srcs, tgt, i + 1)
           ELSE ScanSources(ScanTarget(acc, s, tgt, 1, TRUE), srcs, tgt, i + 1)

\* the comparator of sortedAllTablesToMerge
MergeCmp(a, b) ==
  IF a.level # b.level THEN a.level - b.level ELSE IdLocaleCompare(b.id, a.id)

\* sortedAllTablesToMerge
SortForMerge(s) ==
  StableSort(s, [i \in 1..Len(s) |-> [j \in 1..Len(s) |-> MergeCmp(s[i], s[j])]])

\* mergedDataMap: the first value seen for each key wins
RECURSIVE MergeEntries(_, _, _)
MergeEntries(map, data, i) ==
  IF i > Len(data) THEN map
  ELSE MergeEntries(IF MapHas(map, data[i][1]) THEN map ELSE Append(map, data[i]),
                    data, i + 1)

RECURSIVE MergeTables(_, _, _)
MergeTables(map, tables, i) ==
  IF i > Len(tables) THEN map
  ELSE MergeTables(MergeEntries(map, tables[i].data, 1), tables, i + 1)

\* a faulty filter that drops tombstones everywhere but at the last level
KeepEntryInverted(value, levelToCompact, maxLevels) ==
  value # TOMBSTONE \/ levelToCompact >= maxLevels - 2

\* the tombstone filter of compact
KeepEntry(value, levelToCompact, maxLevels) ==
  value # TOMBSTONE \/ levelToCompact < maxLevels - 2

FinalMergedData(sortedTables, levelToCompact, maxLevels) ==
  SortEntries(SelectSeq(MergeTables(<< >>, sortedTables, 1),
                        LAMBDA kv : KeepEntry(kv[2], levelToCompact, maxLevels)))

\* a faulty loop that tags the runs it creates with the level compacted
RECURSIVE MakeChunksTaggedWithSource(_, _, _, _)
MakeChunksTaggedWithSource(e, final, i, targetLevel) ==
  IF i > Len(final) THEN e
  ELSE LET hi == IF i + e.config.sstableMaxItems - 1 > Len(final)
                 THEN Len(final) ELSE i + e.config.sstableMaxItems - 1
           chunk == SubSeq(final, i, hi)
           newSSTable == NewSSTable(generateSSTableId(e), targetLevel - 1, chunk)
           e1 == [e EXCEPT !.nid = @ + 1,
                           !.levels[targetLevel + 1] = Append(@, newSSTable)]
       IN  MakeChunksTaggedWithSource(AddLog(e1, "Created new SSTable."), final,
                                      i + e.config.sstableMaxItems, targetLevel)

\* the loop creating one run per chunk of sstableMaxItems entries
RECURSIVE MakeChunks(_, _, _, _)
MakeChunks(e, final, i, targetLevel) ==
  IF i > Len(final) THEN e
  ELSE LET hi == IF i + e.config.sstableMaxItems - 1 > Len(final)
                 THEN Len(final) ELSE i + e.config.sstableMaxItems - 1
           chunk == SubSeq(final, i, hi)
           newSSTable == NewSSTable(generateSSTableId(e), targetLevel, chunk)
           e1 == [e EXCEPT !.nid = @ + 1,
                           !.levels[targetLevel + 1] = Append(@, newSSTable)]
       IN  MakeChunks(AddLog(e1, "Created new SSTable."), final,
                      i + e.config.sstableMaxItems, targetLevel)

\* the comparator re-sorting the target level by minKey
MinKeyCmp(a, b) ==
  IF a.minKey = Null /\ b.minKey = Null THEN 0
  ELSE IF a.minKey = Null THEN -1
  ELSE IF b.minKey = Null THEN 1
  ELSE LocaleCompare(a.minKey, b.minKey)

\* this.levels[targetLevel].sort(...)
SortByMinKey(s) ==
  StableSort(s, [i \in 1..Len(s) |-> [j \in 1..Len(s) |-> MinKeyCmp(s[i], s[j])]])

RECURSIVE Compact(_, _), TriggerCompactionIfNeeded(_), TriggerLoop(_, _)

\* compact, from the removal of the overlapping runs to the end
CompactMerge(e, levelToCompact, source, overlapping) ==
  LET targetLevel == levelToCompact + 1
      e1 == AddLog(e, "Found overlapping SSTables in target to include in merge.")
      e2 == [e1 EXCEPT !.levels[targetLevel + 1] =
               SelectSeq(@, LAMBDA t :
                           ~ \E x \in 1..Len(overlapping) : overlapping[x].id = t.id)]
      allTablesToMerge == source \o overlapping
  IN  IF Len(source) = 0
      THEN AddLog(e, "No tables selected for compaction. Compaction aborted.")
      ELSE IF Len(allTablesToMerge) = 0
      THEN [AddLog(e2, "No tables to merge in compaction process. Aborting.")
              EXCEPT !.levels[levelToCompact + 1] =
                       IF levelToCompact > 0 THEN source \o @ ELSE @ \o source]
      ELSE
        LET e3 == AddLog(e2, "Merging the following SSTables.")
            sorted == SortForMerge(allTablesToMerge)
            final == FinalMergedData(sorted, levelToCompact, e.config.maxLevels)
            e4 == [AddLog(e3, "Merged data resulted in unique, live keys.")
                     EXCEPT !.metrics.itemsWrittenToSSTables = @ + Len(final)]
            e5 == MakeChunks(e4, final, 1, targetLevel)
            e6 == IF targetLevel > 0
                  THEN [e5 EXCEPT !.levels[targetLevel + 1] =
                                     SortByMinKey(@)]
                  ELSE e5
            e7 == [AddLog(e6, "Compaction complete.")
                     EXCEPT !.events = Append(@,
                       [kind |-> "compact", level |-> levelToCompact,
                        source |-> source, overlapping |-> overlapping,
                        sourceBefore |-> IF levelToCompact > 0
                                         THEN source \o e.levels[levelToCompact + 1]
                                         ELSE source,
                        targetBefore |-> e.levels[targetLevel + 1],
                        targetAfter |-> e6.levels[targetLevel + 1],
                        chunks |-> SubSeq(e5.levels[targetLevel + 1],
                                          Len(e4.levels[targetLevel + 1]) + 1,
                                          Len(e5.levels[targetLevel + 1])),
                        final |-> final, maxLevels |-> e.config.maxLevels,
                        created |-> e5.nid - e4.nid])]
        IN  TriggerCompactionIfNeeded(e7)

\* a faulty compact that empties the last level when asked to compact it
CompactEmptyingLastLevel(e, levelToCompact) ==
  IF levelToCompact >= e.config.maxLevels - 1
  THEN [AddLog(e, "Cannot compact: it's the last configured level.")
          EXCEPT !.levels = [i \in 1..Len(@) |->
                               IF i = levelToCompact + 1 THEN << >> ELSE @[i]]]
  ELSE
    LET targetLevel == levelToCompact + 1
        e1 == AddLog(e, "Attempting compaction...")
        l0 == e1.levels[1]
    IN  IF levelToCompact = 0
        THEN IF \/ Len(l0) <= e.config.l0MaxSSTables /\ Len(l0) > 0
                \/ Len(l0) > e.config.l0MaxSSTables
             THEN LET e2 == AddLog([e1 EXCEPT !.levels[1] = << >>],
                                   "Selected SSTables from L0 for compaction.")
                  IN  CompactMerge(e2, 0, l0,
                                   ScanSources(<< >>, l0, e2.levels[targetLevel + 1], 1))
             ELSE AddLog(e1, "No L0 compaction triggered by threshold.")
        ELSE IF levelToCompact < 0
             \* this.levels[levelToCompact] is undefined: reading its length
             \* throws a TypeError
             THEN [e1 EXCEPT !.raised = TRUE]
        ELSE IF Len(e1.levels[levelToCompact + 1]) = 0
             THEN AddLog(e1, "Level is empty. No compaction needed.")
             ELSE LET tableToCompact == Head(e1.levels[levelToCompact + 1])
                      e2 == AddLog([e1 EXCEPT !.levels[levelToCompact + 1] = Tail(@)],
                                   "Selected oldest SSTable.")
                  IN  CompactMerge(e2, levelToCompact, <<tableToCompact>>,
                        IF ~ Falsy(tableToCompact.minKey) /\ ~ Falsy(tableToCompact.maxKey)
                        THEN ScanTarget(<< >>, tableToCompact,
                                        e2.levels[targetLevel + 1], 1, FALSE)
                        ELSE << >>)

Compact(e, levelToCompact) ==
  IF levelToCompact >= e.config.maxLevels - 1
  THEN AddLog(e, "Cannot compact: it's the last configured level.")
  ELSE
    LET targetLevel == levelToCompact + 1
        e1 == AddLog(e, "Attempting compaction...")
        l0 == e1.levels[1]
    IN  IF levelToCompact = 0
        THEN IF \/ Len(l0) <= e.config.l0MaxSSTables /\ Len(l0) > 0
                \/ Len(l0) > e.config.l0MaxSSTables
             THEN LET e2 == AddLog([e1 EXCEPT !.levels[1] = << >>],
                                   "Selected SSTables from L0 for compaction.")
                  IN  CompactMerge(e2, 0, l0,
                                   ScanSources(<< >>, l0, e2.levels[targetLevel + 1], 1))
             ELSE AddLog(e1, "No L0 compaction triggered by threshold.")
        ELSE IF levelToCompact < 0
             \* this.levels[levelToCompact] is undefined: reading its length
             \* throws a TypeError
             THEN [e1 EXCEPT !.raised = TRUE]
        ELSE IF Len(e1.levels[levelToCompact + 1]) = 0
             THEN AddLog(e1, "Level is empty. No compaction needed.")
             ELSE LET tableToCompact == Head(e1.levels[levelToCompact + 1])
                      e2 == AddLog([e1 EXCEPT !.levels[levelToCompact + 1] = Tail(@)],
                                   "Selected oldest SSTable.")
                  IN  CompactMerge(e2, levelToCompact, <<tableToCompact>>,
                        IF ~ Falsy(tableToCompact.minKey) /\ ~ Falsy(tableToCompact.maxKey)
                        THEN ScanTarget(<< >>, tableToCompact,
                                        e2.levels[targetLevel + 1], 1, FALSE)
                        ELSE << >>)

\* a faulty trigger that checks level 0 only, so that nothing cascades
TriggerLevel0Only(e) ==
  IF Len(e.levels[1]) > e.config.l0MaxSSTables THEN Compact(e, 0) ELSE e

\* a faulty capacity that lets every level hold one run more
MaxSSTablesPlusOne(c, i) == c.l0MaxSSTables * Pow(c.levelMaxSSTablesFactor, i) + 1

\* the capacity of level i
MaxSSTablesInLevel(c, i) ==
  IF i = 0 THEN c.l0MaxSSTables
  ELSE c.l0MaxSSTables * Pow(c.levelMaxSSTablesFactor, i)

TriggerLoop(e, i) ==
  IF i >= e.config.maxLevels - 1 THEN e
  ELSE TriggerLoop(IF Len(e.levels[i + 1]) > MaxSSTablesInLevel(e.config, i)
                   THEN Compact(e, i) ELSE e,
                   i + 1)

\* a faulty trigger that compacts level 0 whenever it holds a run
TriggerAlwaysCompactingLevel0(e) ==
  TriggerLoop(IF Len(e.levels[1]) > 0 THEN Compact(e, 0) ELSE e, 0)

TriggerCompactionIfNeeded(e) ==
  TriggerLoop(IF Len(e.levels[1]) > e.config.l0MaxSSTables THEN Compact(e, 0) ELSE e,
              0)

\* a faulty put that counts the write before it looks at the key
LSMPutCountingFirst(e, key, value) ==
  IF Falsy(key)
  THEN [AddLog(e, "Write failed: Key cannot be empty.")
          EXCEPT !.metrics.logicalWrites = @ + 1]
  ELSE [AddLog([e EXCEPT !.memtable = MemTablePut(@, key, value)],
               "Key set in MemTable.")
          EXCEPT !.metrics.logicalWrites = @ + 1]

LSMPut(e, key, value) ==
  IF Falsy(key) THEN AddLog(e, "Write failed: Key cannot be empty.")
  ELSE
    LET e1 == IF MemTableIsFull(e.memtable)
              THEN FlushMemTable(AddLog(e, "MemTable is full, attempting to flush first."))
              ELSE e
    IN  IF MemTableIsFull(e1.memtable)
        THEN [AddLog(e1, "Write failed: MemTable is still full.")
                EXCEPT !.rejected = TRUE]
        ELSE
          LET e2 == [AddLog([e1 EXCEPT !.memtable = MemTablePut(@, key, value)],
                            "Key set in MemTable.")
                       EXCEPT !.metrics.logicalWrites = @ + 1]
              e3 == IF MemTableIsFull(e2.memtable) THEN FlushMemTable(e2) ELSE e2
          IN  TriggerCompactionIfNeeded(e3)

\* a faulty delete that takes a write off the count instead of adding one
LSMDeleteTakingBackAWrite(e, key) ==
  IF Falsy(key) THEN AddLog(e, "Delete failed: Key cannot be empty.")
  ELSE
    LET e1 == [AddLog([e EXCEPT !.memtable = MemTableDelete(@, key)],
                      "Key set in MemTable.")
                 EXCEPT !.metrics.logicalWrites = @ - 1]
    IN  TriggerCompactionIfNeeded(
          IF MemTableIsFull(e1.memtable) THEN FlushMemTable(e1) ELSE e1)

\* a faulty delete that leaves a buffer it has filled to the next call
LSMDeleteWithoutFlush(e, key) ==
  IF Falsy(key) THEN AddLog(e, "Delete failed: Key cannot be empty.")
  ELSE
    LET e1 == IF MemTableIsFull(e.memtable)
              THEN FlushMemTable(AddLog(e, "MemTable is full, attempting to flush first."))
              ELSE e
    IN  TriggerCompactionIfNeeded(
          [AddLog([e1 EXCEPT !.memtable = MemTableDelete(@, key)],
                  "Key set in MemTable.")
             EXCEPT !.metrics.logicalWrites = @ + 1])

LSMDelete(e, key) ==
  IF Falsy(key) THEN AddLog(e, "Delete failed: Key cannot be empty.")
  ELSE
    LET e1 == IF MemTableIsFull(e.memtable)
              THEN FlushMemTable(AddLog(e, "MemTable is full, attempting to flush first."))
              ELSE e
    IN  IF MemTableIsFull(e1.memtable)
        THEN [AddLog(e1, "Delete failed: MemTable is still full.")
                EXCEPT !.rejected = TRUE]
        ELSE
          LET e2 == [AddLog([e1 EXCEPT !.memtable = MemTableDelete(@, key)],
                            "Key set in MemTable.")
                       EXCEPT !.metrics.logicalWrites = @ + 1]
              e3 == IF MemTableIsFull(e2.memtable) THEN FlushMemTable(e2) ELSE e2
          IN  TriggerCompactionIfNeeded(e3)

\* the runs get probes, in order, each with the index of its level
RECURSIVE ProbeOrder(_, _)
ProbeOrder(lvls, i) ==
  IF i >= Len(lvls) THEN << >>
  ELSE LET tablesToSearch == IF i = 0 THEN Reverse(lvls[i + 1]) ELSE lvls[i + 1]
       IN  [j \in 1..Len(tablesToSearch) |-> [level |-> i, table |-> tablesToSearch[j]]]
           \o ProbeOrder(lvls, i + 1)

\* the range test that skips a run of a level >= 1
SkipRun(i, t, key) ==
  /\ i > 0
  /\ ~ Falsy(t.minKey)
  /\ ~ Falsy(t.maxKey)
  /\ (key < t.minKey \/ key > t.maxKey)

\* the loop of get over the runs: [value, path]
RECURSIVE SearchRuns(_, _, _, _)
SearchRuns(probes, j, key, path) ==
  IF j > Len(probes) THEN [value |-> Undefined, path |-> path]
  ELSE LET i == probes[j].level
           t == probes[j].table
           value == SSTableGet(t, key)
           step(status) == [component |-> "SSTable", level |-> i, id |-> t.id,
                            status |-> status]
       IN  IF SkipRun(i, t, key) THEN SearchRuns(probes, j + 1, key, path)
           ELSE IF value # Undefined
           THEN IF value = TOMBSTONE
                THEN [value |-> TOMBSTONE,
                      path |-> Append(path, step("Found (Tombstone)"))]
                ELSE [value |-> value, path |-> Append(path, step("Found"))]
           ELSE SearchRuns(probes, j + 1, key, Append(path, step("Not Found")))

\* the loop of get over the runs in the variant without the range skip
RECURSIVE SearchRunsAlwaysProbe(_, _, _, _)
SearchRunsAlwaysProbe(probes, j, key, path) ==
  IF j > Len(probes) THEN [value |-> Undefined, path |-> path]
  ELSE LET i == probes[j].level
           t == probes[j].table
           value == SSTableGet(t, key)
           step(status) == [component |-> "SSTable", level |-> i, id |-> t.id,
                            status |-> status]
       IN  IF value # Undefined
           THEN IF value = TOMBSTONE
                THEN [value |-> TOMBSTONE,
                      path |-> Append(path, step("Found (Tombstone)"))]
                ELSE [value |-> value, path |-> Append(path, step("Found"))]
           ELSE SearchRunsAlwaysProbe(probes, j + 1, key,
                                      Append(path, step("Not Found")))

\* what get returns in the variant without the range skip
GetResultAlwaysProbe(mem, lvls, key) ==
  IF Falsy(key) THEN [value |-> Undefined, path |-> << >>]
  ELSE
    LET value == MemTableGet(mem, key)
        step(status) == [component |-> "MemTable", level |-> -1, id |-> <<-1, -1>>,
                         status |-> status]
    IN  IF value # Undefined
        THEN IF value = TOMBSTONE
             THEN [value |-> TOMBSTONE, path |-> <<step("Found (Tombstone)")>>]
             ELSE [value |-> value, path |-> <<step("Found")>>]
        ELSE SearchRunsAlwaysProbe(ProbeOrder(lvls, 0), 1, key,
                                   <<step("Not Found")>>)

\* what get returns
GetResult(mem, lvls, key) ==
  IF Falsy(key) THEN [value |-> Undefined, path |-> << >>]
  ELSE
    LET value == MemTableGet(mem, key)
        step(status) == [component |-> "MemTable", level |-> -1, id |-> <<-1, -1>>,
                         status |-> status]
    IN  IF value # Undefined
        THEN IF value = TOMBSTONE
             THEN [value |-> TOMBSTONE, path |-> <<step("Found (Tombstone)")>>]
             ELSE [value |-> value, path |-> <<step("Found")>>]
        ELSE SearchRuns(ProbeOrder(lvls, 0), 1, key, <<step("Not Found")>>)

\* a faulty get that reverses level 0 in place to probe it newest-first
LSMGetReversingInPlace(e, key) ==
  IF Falsy(key) THEN e
  ELSE [e EXCEPT !.levels[1] = Reverse(@), !.metrics.logicalReads = @ + 1]

\* a faulty get that counts every run of the engine as accessed
LSMGetCountingAllRuns(e, key) ==
  IF Falsy(key) THEN AddLog(e, "Read failed: Key cannot be empty.")
  ELSE [AddLog(e, "Searching for key...")
          EXCEPT !.metrics.logicalReads = @ + 1,
                 !.metrics.memtableLookupsForRead = @ + 1,
                 !.metrics.sstablesAccessedForRead = @ + Len(ProbeOrder(e.levels, 0))]

\* a faulty get that keeps the value it found in a run in the write buffer
LSMGetCachingInBuffer(e, key) ==
  IF Falsy(key) THEN AddLog(e, "Read failed: Key cannot be empty.")
  ELSE
    LET r == GetResult(e.memtable, e.levels, key)
        e1 == AddLog(AddLog(e, "Searching for key..."),
                     IF r.value = Undefined THEN "Key not found in any SSTable."
                     ELSE IF r.value = TOMBSTONE THEN "Key found as TOMBSTONE."
                     ELSE "Key found.")
    IN  [e1 EXCEPT !.memtable = IF r.value = Undefined THEN @
                                ELSE MemTablePut(@, key, r.value),
                   !.metrics.logicalReads = @ + 1,
                   !.metrics.memtableLookupsForRead = @ + 1,
                   !.metrics.sstablesAccessedForRead = @ + Len(r.path) - 1]

\* a faulty get that counts the read before it looks at the key
LSMGetCountingFirst(e, key) ==
  [AddLog(e, "Searching for key...") EXCEPT !.metrics.logicalReads = @ + 1]

\* the engine after get
LSMGet(e, key) ==
  IF Falsy(key) THEN AddLog(e, "Read failed: Key cannot be empty.")
  ELSE
    LET r == GetResult(e.memtable, e.levels, key)
        e1 == AddLog(AddLog(e, "Searching for key..."),
                     IF r.value = Undefined THEN "Key not found in any SSTable."
                     ELSE IF r.value = TOMBSTONE THEN "Key found as TOMBSTONE."
                     ELSE "Key found.")
    IN  [e1 EXCEPT !.metrics.logicalReads = @ + 1,
                   !.metrics.memtableLookupsForRead = @ + 1,
                   !.metrics.sstablesAccessedForRead = @ + Len(r.path) - 1]

\* reset() and reset(undefined): no configuration object at all
Absent == [absent |-> TRUE]

IsAbsent(newConfigParams) == "absent" \in DOMAIN newConfigParams

\* a faulty reset that keeps the levels when their number does not change
LSMResetKeepingLevels(e, newConfigParams) ==
  IF IsAbsent(newConfigParams) THEN [e EXCEPT !.raised = TRUE]
  ELSE
    LET c == NormalizeConfig(newConfigParams)
    IN  [e EXCEPT !.config = c,
                  !.memtable = NewMemTable(c.memtableMaxSize),
                  !.levels = IF c.maxLevels = Len(@) THEN @
                             ELSE [i \in 1..c.maxLevels |-> << >>],
                  !.log = <<"LSM Tree has been reset with new configuration.">>,
                  !.metrics = ZeroMetrics]

LSMReset(e, newConfigParams) ==
  IF IsAbsent(newConfigParams)
  \* newConfigParams.memtableMaxSize throws a TypeError before any assignment
  THEN [e EXCEPT !.raised = TRUE]
  ELSE
    LET c == NormalizeConfig(newConfigParams)
    IN  [e EXCEPT !.config = c,
                  !.memtable = NewMemTable(c.memtableMaxSize),
                  !.levels = [i \in 1..c.maxLevels |-> << >>],
                  !.log = <<"LSM Tree has been reset with new configuration.">>,
                  !.metrics = ZeroMetrics]

\* (a / b).toFixed(2) as a number of hundredths, 0 when b is 0; exact while
\* b < 8, where no quotient falls on half a hundredth
ToFixed2(a, b) == IF b > 0 THEN (200 * a + b) \div (2 * b) ELSE 0

\* getMetrics()
GetMetrics(e) ==
  [logicalWrites |-> e.metrics.logicalWrites,
   itemsWrittenToSSTables |-> e.metrics.itemsWrittenToSSTables,
   logicalReads |-> e.metrics.logicalReads,
   sstablesAccessedForRead |-> e.metrics.sstablesAccessedForRead,
   memtableLookupsForRead |-> e.metrics.memtableLookupsForRead,
   writeAmplification |->
     ToFixed2(e.metrics.itemsWrittenToSSTables, e.metrics.logicalWrites),
   readAmplificationSSTables |->
     ToFixed2(e.metrics.sstablesAccessedForRead, e.metrics.logicalReads)]

\* getState(): the snapshot's values
GetState(e) ==
  [memtable |-> SortEntries(e.memtable.data),
   levels |-> [i \in 1..Len(e.levels) |->
                [j \in 1..Len(e.levels[i]) |->
                  [id |-> e.levels[i][j].id, level |-> e.levels[i][j].level,
                   data |-> e.levels[i][j].data,
                   minKey |-> e.levels[i][j].minKey,
                   maxKey |-> e.levels[i][j].maxKey]]],
   log |-> e.log,
   config |-> e.config,
   metrics |-> GetMetrics(e)]

\* The parts of a snapshot a caller can write to: the array of buffer
\* entries, a level's array of runs, a run's data array, the log array, an
\* entry of the log, the config and the metrics.
SnapshotParts ==
  {"memtable", "runList", "runData", "log", "logEntry", "config", "metrics"}

\* Whether a part of the snapshot is the engine's own object.  The buffer
\* entries, the run lists, the log array, the config and the metrics are built
\* anew (Array.from, map, spread); a run's data comes from SSTable's
\* getDataForViz(), which returns this.data itself, and [...this.log] copies
\* the array but not the {text, time} objects in it.
IsLiveReference(part) == part \in {"runData", "logEntry"}

\* the positions <<i, j>> of the runs
RunPositions(e) ==
  UNION {{<<i, j>> : j \in 1..Len(e.levels[i])} : i \in 1..Len(e.levels)}

\* the engines that can result when the caller of getState writes to a part
\* of the snapshot: to the value of the first entry of some run's data, to
\* the text of the newest log entry
CallerWrites(e, part) ==
  IF part = "runData" /\ IsLiveReference(part)
  THEN {e} \cup {[e EXCEPT !.levels[p[1]][p[2]].data[1][2] = "changed"] :
                   p \in RunPositions(e)}
  ELSE IF part = "logEntry" /\ IsLiveReference(part)
  THEN {[e EXCEPT !.log[1] = "changed"]}
  ELSE {e}

\* new LSMTree(config)
NewLSMTree(cfg) ==
  LET c == NormalizeConfig(cfg)
  IN  [config |-> c,
       memtable |-> NewMemTable(c.memtableMaxSize),
       levels |-> [i \in 1..c.maxLevels |-> << >>],
       log |-> <<"LSM Tree initialized.">>,
       metrics |-> ZeroMetrics]

-----------------------------------------------------------------------------
(* The state machine: one action per public call *)

\* the engine as a call with random draws rs finds it
Engine(rs) ==
  [config |-> config, memtable |-> memtable, levels |-> levels, log |-> log,
   metrics |-> metrics, now |-> now, rs |-> rs, nid |-> 0, events |-> << >>,
   rejected |-> FALSE, raised |-> FALSE]

\* the page when the engine is used on its own, without the App component
NoPage ==
  [isClient |-> FALSE, treeState |-> << >>, isCompacting |-> FALSE,
   timers |-> << >>, instance |-> 0, detached |-> << >>, storage |-> << >>,
   acted |-> 0]

\* the instance the variables hold, as a call leaves it
InstanceBecomes(e) ==
  /\ config' = e.config
  /\ memtable' = e.memtable
  /\ levels' = e.levels
  /\ log' = e.log
  /\ metrics' = e.metrics
  /\ events' = e.events

\* the engine as a call made on it directly leaves it
Becomes(e) ==
  /\ InstanceBecomes(e)
  /\ UNCHANGED page

Wrote(key, value) ==
  [k \in DOMAIN latest \cup {key} |->
     IF k = key
     THEN [value |-> value,
           prev |-> IF key \in DOMAIN latest THEN latest[key].value ELSE Undefined]
     ELSE latest[k]]

NoResult == [value |-> Undefined, path |-> << >>]

Op(kind, key, value, level, e, result) ==
  [kind |-> kind, key |-> key, value |-> value, level |-> level,
   rejected |-> e.rejected, raised |-> e.raised, result |-> result]

NoOp == [kind |-> "new", key |-> EmptyKey, value |-> Undefined, level |-> -1,
         rejected |-> FALSE, raised |-> FALSE, result |-> NoResult]

InstanceInit(c) ==
  LET t == NewLSMTree(c)
  IN  /\ config = t.config
      /\ memtable = t.memtable
      /\ levels = t.levels
      /\ log = t.log
      /\ metrics = t.metrics
      /\ now = 0
      /\ lastOp = NoOp
      /\ prevOp = NoOp
      /\ events = << >>
      /\ latest = << >>
      /\ nops = 0

InitWith(c) ==
  /\ InstanceInit(c)
  /\ page = NoPage

Init == \E c \in Configs : InitWith(c)

\* The random suffixes a call can draw: generateSSTableId runs only in a call
\* that flushes or compacts, so any other call has nothing to draw.
Draws(generates) == IF generates THEN Rand ELSE {0}

WillFlush(key) ==
  /\ ~ Falsy(key)
  /\ \/ MemTableIsFull(memtable)
     \/ MemTableIsFull(MemTablePut(memtable, key, Undefined))

OverCapacity ==
  \E i \in 0..(config.maxLevels - 2) :
    Len(levels[i + 1]) > MaxSSTablesInLevel(config, i)

Put(key, value) ==
  \E rs \in Draws(WillFlush(key) \/ OverCapacity) :
    \E e \in {LSMPut(Engine(rs), key, value)} :
      /\ Becomes(e)
      /\ lastOp' = Op("put", key, value, -1, e, NoResult)
      /\ prevOp' = lastOp
      /\ latest' = IF Falsy(key) \/ e.rejected THEN latest ELSE Wrote(key, value)
      /\ nops' = nops + 1
      /\ UNCHANGED now

Delete(key) ==
  \E rs \in Draws(WillFlush(key) \/ OverCapacity) :
    \E e \in {LSMDelete(Engine(rs), key)} :
      /\ Becomes(e)
      /\ lastOp' = Op("delete", key, TOMBSTONE, -1, e, NoResult)
      /\ prevOp' = lastOp
      /\ latest' = IF Falsy(key) \/ e.rejected THEN latest ELSE Wrote(key, TOMBSTONE)
      /\ nops' = nops + 1
      /\ UNCHANGED now

Get(key) ==
  \E e \in {LSMGet(Engine(0), key)} :
    /\ Becomes(e)
    /\ lastOp' = Op("get", key, Undefined, -1, e, GetResult(memtable, levels, key))
    /\ prevOp' = lastOp
    /\ nops' = nops + 1
    /\ UNCHANGED <<now, latest>>

ManualCompact(level) ==
  \E rs \in Draws(/\ level >= 0
                   /\ level < config.maxLevels - 1
                   /\ levels[level + 1] # << >>) :
    \E e \in {Compact(Engine(rs), level)} :
      /\ Becomes(e)
      /\ lastOp' = Op("compact", EmptyKey, Undefined, level, e, NoResult)
      /\ prevOp' = lastOp
      /\ nops' = nops + 1
      /\ UNCHANGED <<now, latest>>

Reset(newConfigParams) ==
  \E e \in {LSMReset(Engine(0), newConfigParams)} :
    /\ Becomes(e)
    /\ lastOp' = Op("reset", EmptyKey, newConfigParams, -1, e, NoResult)
    /\ prevOp' = lastOp
    /\ latest' = IF e.raised THEN latest ELSE << >>
    /\ nops' = nops + 1
    /\ UNCHANGED now

\* getState(), after which the caller writes to a part of the snapshot
GetStateAndWrite(part) ==
  \E e \in CallerWrites(Engine(0), part) :
    /\ Becomes(e)
    /\ lastOp' = Op("getState", EmptyKey, part, -1, e,
                    [value |-> Undefined, path |-> << >>,
                     state |-> GetState(Engine(0))])
    /\ prevOp' = lastOp
    /\ nops' = nops + 1
    /\ UNCHANGED <<now, latest>>

\* flushMemTable(), called on its own
Flush ==
  \E rs \in Draws(memtable.data # << >>) :
    \E e \in {FlushMemTable(Engine(rs))} :
      /\ Becomes(e)
      /\ lastOp' = Op("flush", EmptyKey, Undefined, -1, e, NoResult)
      /\ prevOp' = lastOp
      /\ nops' = nops + 1
      /\ UNCHANGED <<now, latest>>

\* A millisecond passes.  The clock is read only by generateSSTableId, so a
\* tick matters only when some run carries the current time.
Tick ==
  /\ now < MaxClock
  /\ \E i \in 1..Len(levels) : \E j \in 1..Len(levels[i]) : levels[i][j].id[1] = now
  /\ now' = now + 1
  /\ UNCHANGED <<config, memtable, levels, log, metrics, lastOp, prevOp, events,
                 latest, nops, page>>

\* The value of the next put of a key: values are opaque to the engine, so a
\* put writes the value that differs from the key's last written one.
NextValue(key) ==
  IF key \in DOMAIN latest /\ latest[key].value = "v1" THEN "v2" ELSE "v1"

Call ==
  \/ \E key \in Keys, value \in Values : value = NextValue(key) /\ Put(key, value)
  \/ \E key \in Keys : Delete(key)
  \/ \E key \in Keys : Get(key)
  \/ \E level \in 0..(config.maxLevels - 1) : ManualCompact(level)

Next == (nops < MaxOps /\ Call) \/ Tick

Spec == Init /\ [][Next]_vars

-----------------------------------------------------------------------------
(* The round-trip scenario: memtableMaxSize 2, l0MaxSSTables 2,             *)
(* sstableMaxItems 10, levelMaxSSTablesFactor 4, maxLevels 3, and the puts  *)
(* a=1 .. f=6 in that order, with reads of "c" and "z" in between.          *)

MaxScriptReads == 2

ScriptConfig ==
  [memtableMaxSize |-> 2, l0MaxSSTables |-> 2, levelMaxSSTablesFactor |-> 4,
   sstableMaxItems |-> 10, maxLevels |-> 3]

ScriptValues == <<"1", "2", "3", "4", "5", "6">>

ScriptInit == InitWith(ScriptConfig)

ScriptPut ==
  /\ metrics.logicalWrites < Len(ScriptValues)
  /\ Put(97 + metrics.logicalWrites, ScriptValues[metrics.logicalWrites + 1])

ScriptGet ==
  /\ metrics.logicalReads < MaxScriptReads
  /\ \E key \in {99, 122} : Get(key)

ScriptNext == ScriptPut \/ ScriptGet \/ Tick

ScriptSpec == ScriptInit /\ [][ScriptNext]_vars

-----------------------------------------------------------------------------
(* Longer histories of one small tree whose level 0 holds two runs at rest, *)
(* so that reads probe level 0 newest-first across more than one run.       *)

MaxReadOps == 4

ReadInit == InitWith(Cfg(1, 2, 1, 1, 2))

ReadCall ==
  \/ \E key \in Keys : Put(key, NextValue(key))
  \/ \E key \in Keys : Delete(key)
  \/ \E key \in Keys : Get(key)
  \/ ManualCompact(0)

ReadNext == (nops < MaxReadOps /\ ReadCall) \/ Tick

ReadSpec == ReadInit /\ [][ReadNext]_vars

-----------------------------------------------------------------------------
(* Histories of a tree whose runs hold two entries, over three keys, so     *)
(* that flushes sort, and compactions merge and chunk, runs of several keys.*)

MaxSortOps == 4

SortInit == InitWith(Cfg(2, 1, 2, 2, 2))

SortCall ==
  \/ \E key \in SortKeys : Put(key, NextValue(key))
  \/ \E key \in SortKeys : Delete(key)
  \/ \E key \in SortKeys : Get(key)
  \/ \E level \in 0..1 : ManualCompact(level)

SortNext == (nops < MaxSortOps /\ SortCall) \/ Tick

SortSpec == SortInit /\ [][SortNext]_vars

-----------------------------------------------------------------------------
(* Histories with the calls at the edge of the interface: an empty key,    *)
(* a level outside 0..maxLevels-1, reset with and without a configuration, *)
(* and a caller that writes to the snapshot getState returned.             *)

MaxEdgeOps == 3

\* no key at all, the empty string, "a"
EdgeKeys == {Null, EmptyKey, 97}

ResetParams == {Cfg(0, 0, 0, 0, 0), Cfg(1, 1, 1, 1, 2), Cfg(2, 0, 0, 0, 3)}

EdgeCall ==
  \/ \E key \in EdgeKeys : Put(key, NextValue(key))
  \/ \E key \in EdgeKeys : Delete(key)
  \/ \E key \in EdgeKeys : Get(key)
  \/ \E level \in (-1)..config.maxLevels : ManualCompact(level)
  \/ Flush
  \/ \E newConfigParams \in ResetParams \cup {Absent} : Reset(newConfigParams)
  \/ \E part \in SnapshotParts : GetStateAndWrite(part)

EdgeNext == (nops < MaxEdgeOps /\ EdgeCall) \/ Tick

EdgeSpec == Init /\ [][EdgeNext]_vars

-----------------------------------------------------------------------------
(* Histories of puts and manual compactions over three keys of one case    *)
(* ("a", "b", "c"), where level 1 holds up to two runs of up to two        *)
(* entries and level 2 is the last level.                                  *)

MaxGapOps == 5

GapKeys == {97, 98, 99}

GapInit == InitWith(Cfg(1, 1, 2, 2, 3))

GapCall ==
  \/ \E key \in GapKeys : Put(key, NextValue(key))
  \/ \E level \in 0..1 : ManualCompact(level)

GapNext == (nops < MaxGapOps /\ GapCall) \/ Tick

GapSpec == GapInit /\ [][GapNext]_vars

-----------------------------------------------------------------------------
(* Histories in which flushMemTable is also called on its own, with a      *)
(* buffer of two keys so that it is called on buffers with and without     *)
(* entries.                                                                *)

MaxFlushOps == 4

FlushInit == InitWith(Cfg(2, 2, 2, 2, 2))

FlushCall ==
  \/ \E key \in Keys : Put(key, NextValue(key))
  \/ \E key \in Keys : Delete(key)
  \/ Flush
  \/ ManualCompact(0)

FlushNext == (nops < MaxFlushOps /\ FlushCall) \/ Tick

FlushSpec == FlushInit /\ [][FlushNext]_vars

-----------------------------------------------------------------------------
(* Longer histories of puts and manual compactions of level 0 over two     *)
(* keys, with one-entry runs and level 1 as the last level, so that        *)
(* level 1 collects runs created by different calls.                       *)

MaxTwinOps == 6

TwinKeys == {97, 98}

TwinInit == InitWith(Cfg(1, 2, 2, 1, 2))

TwinCall ==
  \/ \E key \in TwinKeys : Put(key, NextValue(key))
  \/ ManualCompact(0)

TwinNext == (nops < MaxTwinOps /\ TwinCall) \/ Tick

TwinSpec == TwinInit /\ [][TwinNext]_vars

-----------------------------------------------------------------------------
(* Longer histories of puts and manual compactions of level 0 over an      *)
(* upper-case and a lower-case key, with two-entry buffers and runs and    *)
(* level 1 as the last level, so that a run holding both keys meets        *)
(* another one in level 1.                                                 *)

MaxCaseOps == 6

CaseInit == InitWith(Cfg(2, 1, 2, 2, 2))

CaseCall ==
  \/ \E key \in Keys : Put(key, NextValue(key))
  \/ ManualCompact(0)

CaseNext == (nops < MaxCaseOps /\ CaseCall) \/ Tick

CaseSpec == CaseInit /\ [][CaseNext]_vars

-----------------------------------------------------------------------------
(* Histories over three levels in which level 0 holds a run while a deeper *)
(* level is compacted: two-entry buffers flushed by hand, and manual       *)
(* compactions of levels 0 and 1.                                          *)

MaxDeepOps == 6

DeepKeys == {97, 98}

DeepInit == InitWith(Cfg(2, 1, 2, 2, 3))

DeepCall ==
  \/ \E key \in DeepKeys : Put(key, NextValue(key))
  \/ Flush
  \/ \E level \in 0..1 : ManualCompact(level)

DeepNext == (nops < MaxDeepOps /\ DeepCall) \/ Tick

DeepSpec == DeepInit /\ [][DeepNext]_vars

-----------------------------------------------------------------------------
(* The App component: the engine instance in React state, the displayed    *)
(* tree state, the 50 ms timer of a manual compaction, and the state kept  *)
(* in localStorage across page loads.  The keys a handler receives are     *)
(* trimmed and non-empty, the values are strings.                          *)

MaxUiOps == 5

UiKeys == {97, 98}

\* the configurations saved from the settings panel
UiConfigs == {Cfg(1, 2, 2, 1, 2)}

initialLSMConfig ==
  Cfg(MEMTABLE_DEFAULT_MAX_SIZE, L0_DEFAULT_MAX_SSTABLES,
      LEVEL_MAX_SSTABLES_FACTOR, SSTABLE_DEFAULT_MAX_ITEMS, MAX_LEVELS)

\* the fields of an instance
InstanceOf(e) ==
  [config |-> e.config, memtable |-> e.memtable, levels |-> e.levels,
   log |-> e.log, metrics |-> e.metrics]

\* an instance held by a closure only, as a call with random draws rs finds it
Running(inst, rs) ==
  [config |-> inst.config, memtable |-> inst.memtable, levels |-> inst.levels,
   log |-> inst.log, metrics |-> inst.metrics, now |-> now, rs |-> rs,
   nid |-> 0, events |-> << >>, rejected |-> FALSE, raised |-> FALSE]

\* JSON.stringify of a value in an array: undefined is written as null
JSONValue(v) == IF v = Undefined THEN "null" ELSE v

JSONEntries(d) == [p \in 1..Len(d) |-> <<d[p][1], JSONValue(d[p][2])>>]

\* what JSON.parse reads back from JSON.stringify of a tree state
JSONStringify(st) ==
  [st EXCEPT !.memtable = JSONEntries(@),
             !.levels = [i \in 1..Len(@) |->
                          [j \in 1..Len(@[i]) |->
                            [@[i][j] EXCEPT !.data = JSONEntries(@)]]]]

saveState(p, cfg) ==
  [p EXCEPT !.storage = <<[config |-> cfg, treeState |-> JSONStringify(p.treeState)]>>]

loadPersistedState(storage) ==
  IF storage = << >>
  THEN [config |-> initialLSMConfig, treeState |-> << >>]
  ELSE [config |-> storage[1].config, treeState |-> storage[1].treeState]

\* the render after a handler, with the effect that saves the state
Rendered(p, cfg) == IF p.isClient THEN saveState(p, cfg) ELSE p

\* the component as mounted, before its effects run
Mounted(storage) ==
  [isClient |-> FALSE, treeState |-> GetState(NewLSMTree(initialLSMConfig)),
   isCompacting |-> FALSE, timers |-> << >>, instance |-> 0,
   detached |-> << >>, storage |-> storage, acted |-> 0]

UiInit ==
  /\ InstanceInit(initialLSMConfig)
  /\ page = Mounted(<< >>)

\* the page is loaded again: the component mounts with a new engine
OpenPage ==
  /\ page.isClient
  /\ LET t == NewLSMTree(initialLSMConfig)
     IN  /\ config' = t.config
         /\ memtable' = t.memtable
         /\ levels' = t.levels
         /\ log' = t.log
         /\ metrics' = t.metrics
  /\ events' = << >>
  /\ page' = Mounted(page.storage)
  /\ lastOp' = [NoOp EXCEPT !.kind = "openPage"]
  /\ prevOp' = lastOp
  /\ latest' = << >>
  /\ nops' = nops + 1
  /\ UNCHANGED now

\* the effect that handles client-side initialization
ClientInit ==
  /\ ~ page.isClient
  /\ LET persistedState == loadPersistedState(page.storage)
         newInstance == NewLSMTree(persistedState.config)
     IN  /\ config' = newInstance.config
         /\ memtable' = newInstance.memtable
         /\ levels' = newInstance.levels
         /\ log' = newInstance.log
         /\ metrics' = newInstance.metrics
         /\ page' = Rendered([page EXCEPT
                                !.isClient = TRUE,
                                !.instance = @ + 1,
                                !.treeState =
                                  IF persistedState.treeState = << >>
                                  THEN GetState(newInstance)
                                  ELSE persistedState.treeState],
                             newInstance.config)
  /\ events' = << >>
  /\ lastOp' = [NoOp EXCEPT !.kind = "clientInit"]
  /\ prevOp' = lastOp
  /\ nops' = nops + 1
  /\ UNCHANGED <<now, latest>>

\* updateState of the render a handler was created in
updateState(p, e) == [p EXCEPT !.treeState = GetState(e)]

handleWrite(key, value) ==
  /\ page.isClient
  /\ \E rs \in Draws(WillFlush(key) \/ OverCapacity) :
       \E e \in {LSMPut(Engine(rs), key, value)} :
         /\ InstanceBecomes(e)
         /\ page' = Rendered(updateState(page, e), e.config)
         /\ lastOp' = Op("handleWrite", key, value, -1, e, NoResult)
         /\ latest' = IF e.rejected THEN latest ELSE Wrote(key, value)
  /\ prevOp' = lastOp
  /\ nops' = nops + 1
  /\ UNCHANGED now

handleDelete(key) ==
  /\ page.isClient
  /\ \E rs \in Draws(WillFlush(key) \/ OverCapacity) :
       \E e \in {LSMDelete(Engine(rs), key)} :
         /\ InstanceBecomes(e)
         /\ page' = Rendered(updateState(page, e), e.config)
         /\ lastOp' = Op("handleDelete", key, TOMBSTONE, -1, e, NoResult)
         /\ latest' = IF e.rejected THEN latest ELSE Wrote(key, TOMBSTONE)
  /\ prevOp' = lastOp
  /\ nops' = nops + 1
  /\ UNCHANGED now

handleRead(key) ==
  /\ page.isClient
  /\ \E e \in {LSMGet(Engine(0), key)} :
       /\ InstanceBecomes(e)
       /\ page' = Rendered(updateState(page, e), e.config)
       /\ lastOp' = Op("handleRead", key, Undefined, -1, e,
                       GetResult(memtable, levels, key))
  /\ prevOp' = lastOp
  /\ nops' = nops + 1
  /\ UNCHANGED <<now, latest>>

\* handleCompact up to its await: the button is disabled while isCompacting,
\* and the timer's callback keeps the instance of the render it was made in
handleCompact(level) ==
  /\ page.isClient
  /\ ~ page.isCompacting
  /\ page' = [page EXCEPT !.isCompacting = TRUE,
                          !.timers = Append(@, [level |-> level,
                                                instance |-> page.instance])]
  /\ events' = << >>
  /\ lastOp' = [NoOp EXCEPT !.kind = "handleCompact", !.level = level]
  /\ prevOp' = lastOp
  /\ nops' = nops + 1
  /\ UNCHANGED <<config, memtable, levels, log, metrics, now, latest>>

\* the instances a pending timer still holds
Held(timers, detached) ==
  [i \in {j \in DOMAIN detached : \E p \in 1..Len(timers) : timers[p].instance = j}
     |-> detached[i]]

\* handleCompact after its await, 50 ms later
CompactTimer ==
  /\ page.timers # << >>
  /\ LET t == Head(page.timers)
         current == t.instance = page.instance
     IN  \E rs \in Rand :
           \E e \in {Compact(IF current THEN Engine(rs)
                             ELSE Running(page.detached[t.instance], rs),
                             t.level)} :
             /\ IF current
                THEN InstanceBecomes(e)
                ELSE /\ events' = e.events
                     /\ UNCHANGED <<config, memtable, levels, log, metrics>>
             /\ page' = Rendered(
                          [updateState(page, e) EXCEPT
                             !.isCompacting = FALSE,
                             !.timers = Tail(@),
                             !.detached =
                               Held(Tail(page.timers),
                                    IF current THEN @
                                    ELSE [@ EXCEPT ![t.instance] = InstanceOf(e)]),
                             !.acted = t.instance],
                          IF current THEN e.config ELSE config)
             /\ lastOp' = Op("compactTimer", EmptyKey, Undefined, t.level, e,
                             NoResult)
  /\ prevOp' = lastOp
  /\ nops' = nops + 1
  /\ UNCHANGED <<now, latest>>

\* handleResetTree, from the Reset Tree button (with the current config) or
\* from the settings panel: the instance is replaced, not reset
handleResetTree(kind, newConfigParams) ==
  /\ page.isClient
  /\ LET configToUse == IF IsAbsent(newConfigParams) THEN config ELSE newConfigParams
         newInstance == NewLSMTree(configToUse)
         held == \E p \in 1..Len(page.timers) :
                   page.timers[p].instance = page.instance
     IN  /\ config' = newInstance.config
         /\ memtable' = newInstance.memtable
         /\ levels' = newInstance.levels
         /\ log' = newInstance.log
         /\ metrics' = newInstance.metrics
         /\ page' = Rendered(
                      [updateState(page, newInstance) EXCEPT
                         !.instance = @ + 1,
                         !.detached =
                           IF held
                           THEN (page.instance :> InstanceOf(Engine(0))) @@ @
                           ELSE @,
                         !.storage = << >>],
                      newInstance.config)
  /\ events' = << >>
  /\ lastOp' = [NoOp EXCEPT !.kind = kind]
  /\ prevOp' = lastOp
  /\ latest' = << >>
  /\ nops' = nops + 1
  /\ UNCHANGED now

handleSaveSettings(newConfig) == handleResetTree("handleSaveSettings", newConfig)

UiCall ==
  \/ \E key \in UiKeys : handleWrite(key, NextValue(key))
  \/ \E key \in UiKeys : handleDelete(key)
  \/ \E key \in UiKeys : handleRead(key)
  \/ handleCompact(0)
  \/ CompactTimer
  \/ handleResetTree("handleResetTree", config)
  \/ \E newConfig \in UiConfigs : handleSaveSettings(newConfig)
  \/ OpenPage
  \/ ClientInit

UiNext == (nops < MaxUiOps /\ UiCall) \/ Tick

UiSpec == UiInit /\ [][UiNext]_vars

-----------------------------------------------------------------------------
(* Properties *)

Runs(i) == {levels[i + 1][j] : j \in 1..Len(levels[i + 1])}

AllRuns == UNION {Runs(i) : i \in 0..(Len(levels) - 1)}

RunKeys(t) == {t.data[p][1] : p \in 1..Len(t.data)}

\* what a get of key would return in the current state
Read(key) == GetResult(memtable, levels, key)

IsCompaction(ev) == ev.kind = "compact"

MergeSet(ev) == ev.source \o ev.overlapping

MergeKeys(ev) == UNION {RunKeys(MergeSet(ev)[x]) : x \in 1..Len(MergeSet(ev))}

\* the newest version of key k in the merge set of compaction ev: the source
\* level is newer than the target level, and in level 0 a run appended later
\* is newer
Newest(ev, k) ==
  LET holders(runs) == {x \in 1..Len(runs) : k \in RunKeys(runs[x])}
      last(S) == CHOOSE x \in S : \A y \in S : y <= x
      first(S) == CHOOSE x \in S : \A y \in S : x <= y
  IN  IF holders(ev.source) # {}
      THEN MapGet(ev.source[last(holders(ev.source))].data, k)
      ELSE MapGet(ev.overlapping[first(holders(ev.overlapping))].data, k)

OutCount(ev, k) == Cardinality({p \in 1..Len(ev.final) : ev.final[p][1] = k})

\* C1: a key put twice, v1 then v2, with no later write to it, reads as v2,
\* whatever flushes and compactions happened.
C1_LastWriteWins ==
  \A k \in DOMAIN latest :
    (latest[k].value \in Values /\ latest[k].prev \in Values)
      => Read(k).value = latest[k].value

\* C2: a key whose last write is a delete never reads as a live value: it
\* reads as TOMBSTONE or as absent.
C2_DeletedNeverResurfaces ==
  \A k \in DOMAIN latest :
    latest[k].value = TOMBSTONE => Read(k).value \in {TOMBSTONE, Undefined}

\* C3: right after put(k, v) followed by delete(k), a get(k) reports
\* "found, deleted" (TOMBSTONE), also when the delete flushed and compacted.
C3_TombstoneShadowing ==
  (/\ lastOp.kind = "delete"
   /\ prevOp.kind = "put"
   /\ prevOp.key = lastOp.key
   /\ ~ Falsy(lastOp.key))
    => Read(lastOp.key).value = TOMBSTONE

C5_CompactionPreservesRecency ==
  \A n \in 1..Len(events) :
    IsCompaction(events[n]) =>
      \A k \in MergeKeys(events[n]) :
        /\ OutCount(events[n], k) <= 1
        /\ OutCount(events[n], k) = 1 => MapGet(events[n].final, k) = Newest(events[n], k)
        /\ (/\ events[n].level = 0
            /\ (\E x \in 1..Len(events[n].source) : k \in RunKeys(events[n].source[x]))
            /\ ~ MapHas(memtable.data, k)
            /\ Newest(events[n], k) # TOMBSTONE)
             => Read(k).value = Newest(events[n], k)

\* C6: a compaction into the last level writes no key whose newest version is
\* TOMBSTONE, no run of the last level ever holds a TOMBSTONE (maxLevels >= 2),
\* and a deleted key dropped this way is in no run and reads as absent.
C6_LastLevelDropsTombstones ==
  /\ config.maxLevels >= 2 =>
       \A t \in Runs(config.maxLevels - 1) :
         \A p \in 1..Len(t.data) : t.data[p][2] # TOMBSTONE
  /\ \A n \in 1..Len(events) :
       (IsCompaction(events[n]) /\ events[n].level + 1 = events[n].maxLevels - 1) =>
         \A k \in MergeKeys(events[n]) :
           Newest(events[n], k) = TOMBSTONE =>
             /\ OutCount(events[n], k) = 0
             /\ (k \in DOMAIN latest /\ latest[k].value = TOMBSTONE
                 /\ ~ MapHas(memtable.data, k) /\ events[n].level = 0)
                  => /\ \A t \in AllRuns : k \notin RunKeys(t)
                     /\ Read(k).value = Undefined

\* C7: every run of every level has its entries in strictly ascending key
\* order (the order of strings, by code unit, that the lookups compare keys
\* in), hence no duplicate key, and its minKey and maxKey are its first and
\* last keys.
C7_RunsSorted ==
  \A t \in AllRuns :
    /\ Len(t.data) > 0
    /\ \A p \in 1..(Len(t.data) - 1) : t.data[p][1] < t.data[p + 1][1]
    /\ t.minKey = t.data[1][1]
    /\ t.maxKey = t.data[Len(t.data)][1]

PathShape(path) ==
  [p \in 1..Len(path) |-> <<path[p].component, path[p].level, path[p].status>>]

\* C8: two consecutive gets of the same key return the same value and probe
\* paths with the same components and statuses.
C8_IdempotentRead ==
  (/\ lastOp.kind = "get"
   /\ prevOp.kind = "get"
   /\ prevOp.key = lastOp.key)
    => /\ lastOp.result.value = prevOp.result.value
       /\ PathShape(lastOp.result.path) = PathShape(prevOp.result.path)

\* two consecutive gets of a key that two runs of level 0 hold
C8_Witness ==
  /\ lastOp.kind = "get"
  /\ prevOp.kind = "get"
  /\ prevOp.key = lastOp.key
  /\ Cardinality({t \in Runs(0) : lastOp.key \in RunKeys(t)}) = 2
  /\ Len(lastOp.result.path) >= 2

ScriptData ==
  <<<<97, "1">>, <<98, "2">>, <<99, "3">>, <<100, "4">>, <<101, "5">>, <<102, "6">>>>

\* C9: in the round-trip scenario the first two flushes leave their runs in
\* level 0, the third flush triggers the compaction that leaves level 0 empty
\* and level 1 holding one run with a..f; get("c") is 3, get("z") is absent.
C9_RoundTrip ==
  /\ metrics.logicalWrites < 6 =>
       /\ Len(levels[1]) = metrics.logicalWrites \div 2
       /\ levels[2] = << >>
  /\ metrics.logicalWrites = 6 =>
       /\ memtable.data = << >>
       /\ levels[1] = << >>
       /\ Len(levels[2]) = 1
       /\ levels[2][1].data = ScriptData
       /\ levels[3] = << >>
       /\ Read(99).value = "3"
       /\ Read(122).value = Undefined
       /\ lastOp.kind = "get" => lastOp.result.value = IF lastOp.key = 99 THEN "3" ELSE Undefined
       /\ lastOp.kind = "put" =>
            /\ Len(events) = 2
            /\ events[1].kind = "flush"
            /\ IsCompaction(events[2]) /\ events[2].level = 0 /\ Len(events[2].source) = 3

\* all six puts done, and "c" read back
C9_Witness ==
  /\ metrics.logicalWrites = 6
  /\ lastOp.kind = "get"
  /\ lastOp.key = 99
  /\ lastOp.result.value = "3"
  /\ prevOp.kind = "put"

\* C10: a put or delete with a non-empty key is never rejected as "still
\* full": it adds 1 to logicalWrites and leaves the key, with the value
\* written, in the write buffer or in the run the call flushed.
C10_WriteApplied ==
  [][(lastOp'.kind \in {"put", "delete"} /\ nops' = nops + 1 /\ ~ Falsy(lastOp'.key))
       => /\ ~ lastOp'.rejected
          /\ metrics'.logicalWrites = metrics.logicalWrites + 1
          /\ \/ MapGet(memtable'.data, lastOp'.key) = lastOp'.value
             \/ \E n \in 1..Len(events') :
                  /\ events'[n].kind = "flush"
                  /\ MapGet(events'[n].run.data, lastOp'.key) = lastOp'.value]_vars

\* a delete that filled the buffer: its tombstone went to the flushed run,
\* which a compaction into the last level then dropped
C10_Witness ==
  /\ lastOp.kind = "delete"
  /\ ~ lastOp.rejected
  /\ \E n \in 1..Len(events) :
       events[n].kind = "flush" /\ lastOp.key \in RunKeys(events[n].run)
  /\ \A t \in AllRuns : lastOp.key \notin RunKeys(t)

\* C11: put and delete with an empty or missing key change nothing but the
\* activity log: the buffer, every level and the five metrics are what they
\* were, nothing is flushed or compacted, and the call returns normally.
C11_EmptyKeyWriteIsNoOp ==
  [][(/\ nops' = nops + 1
      /\ lastOp'.kind \in {"put", "delete"}
      /\ Falsy(lastOp'.key))
     => /\ memtable' = memtable
        /\ levels' = levels
        /\ metrics' = metrics
        /\ events' = << >>
        /\ ~ lastOp'.raised
        /\ Len(log') = Len(log) + 1]_vars

\* a write with an empty or missing key has returned while runs exist
C11_Witness ==
  /\ lastOp.kind \in {"put", "delete"}
  /\ Falsy(lastOp.key)
  /\ AllRuns # {}
  /\ metrics.logicalWrites > 0

\* C12: get with an empty key returns an absent value and an empty path and
\* leaves the buffer, every level, logicalReads, memtableLookupsForRead and
\* sstablesAccessedForRead as they were.
C12_EmptyKeyReadIsNoOp ==
  [][(/\ nops' = nops + 1
      /\ lastOp'.kind = "get"
      /\ Falsy(lastOp'.key))
     => /\ lastOp'.result.value = Undefined
        /\ lastOp'.result.path = << >>
        /\ memtable' = memtable
        /\ levels' = levels
        /\ metrics'.logicalReads = metrics.logicalReads
        /\ metrics'.memtableLookupsForRead = metrics.memtableLookupsForRead
        /\ metrics'.sstablesAccessedForRead = metrics.sstablesAccessedForRead]_vars

\* a get with an empty key has returned while runs exist
C12_Witness ==
  /\ lastOp.kind = "get"
  /\ lastOp.key = EmptyKey
  /\ AllRuns # {}
  /\ log[1] = "Read failed: Key cannot be empty."

\* C13: no public operation raises: put, delete, get, compact, reset and
\* getState return normally for every argument, compact with a level outside
\* 0..maxLevels-1 and reset without a configuration included.
C13_NoCallRaises == ~ lastOp.raised

\* C14: getState returns copies only: whatever the caller writes to the
\* snapshot (buffer entries, a level's run list, a run's data array, the log,
\* the config, the metrics), the engine's own state stays what it was.
C14_SnapshotIsACopy ==
  [][(nops' = nops + 1 /\ lastOp'.kind = "getState")
     => UNCHANGED <<config, memtable, levels, log, metrics>>]_vars

\* the field of the configuration a reset was given, or its default
C15_Given(field, default) ==
  IF lastOp.value[field] = 0 THEN default ELSE lastOp.value[field]

\* C15: when reset(config) returns, the buffer is empty, there are exactly
\* maxLevels levels and all are empty, the five metrics are 0, the log holds
\* no entry from before the reset, the configuration is the given fields with
\* the unset ones replaced by the defaults, and no key is readable.
C15_ResetStartsAfresh ==
  (lastOp.kind = "reset" /\ ~ IsAbsent(lastOp.value))
  => /\ ~ lastOp.raised
     /\ memtable.data = << >>
     /\ Len(levels) = config.maxLevels
     /\ \A i \in 1..Len(levels) : levels[i] = << >>
     /\ \A m \in DOMAIN metrics : metrics[m] = 0
     /\ DOMAIN metrics = {"logicalWrites", "itemsWrittenToSSTables",
                          "logicalReads", "sstablesAccessedForRead",
                          "memtableLookupsForRead"}
     /\ log = <<"LSM Tree has been reset with new configuration.">>
     /\ config.memtableMaxSize = C15_Given("memtableMaxSize", 5)
     /\ config.l0MaxSSTables = C15_Given("l0MaxSSTables", 3)
     /\ config.levelMaxSSTablesFactor = C15_Given("levelMaxSSTablesFactor", 4)
     /\ config.sstableMaxItems = C15_Given("sstableMaxItems", 10)
     /\ config.maxLevels = C15_Given("maxLevels", 5)
     /\ memtable.maxSize = config.memtableMaxSize
     /\ \A key \in EdgeKeys : Read(key).value = Undefined

\* a reset with unset fields has returned after a get that found its key in a
\* run
C15_Witness ==
  /\ lastOp.kind = "reset"
  /\ ~ IsAbsent(lastOp.value)
  /\ lastOp.value.memtableMaxSize = 0
  /\ prevOp.kind = "get"
  /\ prevOp.result.value \in Values
  /\ Len(prevOp.result.path) > 1

\* the key ranges of two runs intersect
RangesIntersect(t, u) == t.minKey <= u.maxKey /\ u.minKey <= t.maxKey

\* C16: after every compaction, automatic or manual, cascades included, no
\* two runs of the level it wrote to (a level >= 1) have overlapping
\* [minKey, maxKey] ranges.
C16_NonOverlap ==
  \A x \in 1..Len(events) :
    IsCompaction(events[x]) =>
      LET runs == events[x].targetAfter
      IN  \A i, j \in 1..Len(runs) :
            i # j => ~ RangesIntersect(runs[i], runs[j])

\* the value the merge of compaction ev keeps for key k
Winner(ev, k) == MapGet(MergeTables(<< >>, SortForMerge(MergeSet(ev)), 1), k)

\* the winning tombstone of k is in the output of compaction ev
TombstoneKept(ev, k) ==
  OutCount(ev, k) = 1 /\ MapGet(ev.final, k) = TOMBSTONE

C18_OldestRunSelected ==
  \A x \in 1..Len(events) :
    (IsCompaction(events[x]) /\ events[x].level >= 1) =>
      /\ Len(events[x].source) = 1
      /\ Len(events[x].sourceBefore) >= 1
      /\ \A y \in 1..Len(events[x].sourceBefore) :
           events[x].sourceBefore[y].id[1] >= events[x].source[1].id[1]

\* C19: run identifiers are unique and ordered by creation: of two runs of
\* level 0, which holds its runs in the order of their creation, the later
\* one has a different identifier that compares as newer under localeCompare,
\* also when both were created in the same millisecond.
C19_IdsOrderedByCreation ==
  \A i, j \in 1..Len(levels[1]) :
    i < j => /\ levels[1][i].id # levels[1][j].id
             /\ IdLocaleCompare(levels[1][j].id, levels[1][i].id) > 0

\* C20: SortedRun.get is correct on every run the engine builds: for every
\* run of every level and every key, get returns the run's value for the key
\* when the run holds the key and absent otherwise.
C20_RunGetCorrect ==
  \A t \in AllRuns :
    \A key \in SortKeys :
      SSTableGet(t, key) =
        IF key \in RunKeys(t) THEN MapGet(t.data, key) ELSE Undefined

\* C21: the range skip of get is invisible: in every state and for every key,
\* get with the skip returns the value that a get probing every run in the
\* same order returns, and probes no more runs than it.
C21_RangeSkipInvisible ==
  \A key \in Keys :
    /\ Read(key).value = GetResultAlwaysProbe(memtable, levels, key).value
    /\ Len(Read(key).path) <= Len(GetResultAlwaysProbe(memtable, levels, key).path)

\* the number of entries in the runs lvls[i][j..]
RECURSIVE EntriesFrom(_, _, _)
EntriesFrom(lvls, i, j) ==
  IF j > Len(lvls[i]) THEN 0
  ELSE Len(lvls[i][j].data) + EntriesFrom(lvls, i, j + 1)

\* the variant of the cascade: every entry of every run, counted once for
\* each level it has at or below it.  A compaction moves the entries of its
\* source runs one level down or drops them, and creates none.
RECURSIVE Descent(_, _)
Descent(lvls, i) ==
  IF i > Len(lvls) THEN 0
  ELSE (Len(lvls) - i + 1) * EntriesFrom(lvls, i, 1) + Descent(lvls, i + 1)

Compactions(evs) == Cardinality({x \in 1..Len(evs) : IsCompaction(evs[x])})

C23_WriteBufferBound ==
  /\ memtable.maxSize = config.memtableMaxSize
  /\ Len(memtable.data) <= config.memtableMaxSize
  /\ \A p, q \in 1..Len(memtable.data) :
       p # q => memtable.data[p][1] # memtable.data[q][1]
  /\ lastOp.kind \in {"put", "delete"}
       => Len(memtable.data) < config.memtableMaxSize

\* a write that filled a buffer of two keys has returned with the buffer
\* flushed
C23_Witness ==
  /\ lastOp.kind \in {"put", "delete"}
  /\ config.memtableMaxSize = 2
  /\ memtable.data = << >>
  /\ \E x \in 1..Len(events) :
       events[x].kind = "flush" /\ Len(events[x].run.data) = 2

\* the entries of a run or of the buffer, as a set
Pairs(data) == {data[p] : p \in 1..Len(data)}

\* C24: flushMemTable on a buffer with entries appends one run at the end of
\* level 0 whose entries are the buffer's key/value pairs, leaves the buffer
\* empty and every other run where it was, and adds the number of entries to
\* itemsWrittenToSSTables; on an empty buffer it changes nothing but the log.
C24_FlushAppendsOneRun ==
  [][(nops' = nops + 1 /\ lastOp'.kind = "flush")
     => IF memtable.data # << >>
        THEN /\ Len(levels'[1]) = Len(levels[1]) + 1
             /\ SubSeq(levels'[1], 1, Len(levels[1])) = levels[1]
             /\ levels'[1][Len(levels'[1])].level = 0
             /\ Pairs(levels'[1][Len(levels'[1])].data) = Pairs(memtable.data)
             /\ Len(levels'[1][Len(levels'[1])].data) = Len(memtable.data)
             /\ memtable'.data = << >>
             /\ Len(levels') = Len(levels)
             /\ \A i \in 2..Len(levels) : levels'[i] = levels[i]
             /\ metrics' = [metrics EXCEPT !.itemsWrittenToSSTables =
                                             @ + Len(memtable.data)]
        ELSE /\ memtable' = memtable
             /\ levels' = levels
             /\ metrics' = metrics
             /\ Len(log') = Len(log) + 1]_vars

\* flushMemTable has returned after appending a run to a level 0 that held
\* one already
C24_Witness ==
  /\ lastOp.kind = "flush"
  /\ Len(levels[1]) >= 2
  /\ \E x \in 1..Len(events) : events[x].kind = "flush"
  /\ memtable.data = << >>

\* C25: compact(level) with nothing to do, because level is the last level
\* or because the source level holds no run, leaves the write buffer, every
\* level and every metrics counter unchanged; only the log grows.
C25_CompactNothingToDo ==
  [][(/\ nops' = nops + 1
      /\ lastOp'.kind = "compact"
      /\ lastOp'.level \in 0..(config.maxLevels - 1)
      /\ \/ lastOp'.level = config.maxLevels - 1
         \/ levels[lastOp'.level + 1] = << >>)
     => /\ ~ lastOp'.raised
        /\ memtable' = memtable
        /\ levels' = levels
        /\ metrics' = metrics
        /\ config' = config
        /\ events' = << >>
        /\ Len(log') > Len(log)]_vars

\* compact has returned for a last level that holds a run
C25_Witness ==
  /\ lastOp.kind = "compact"
  /\ lastOp.level = config.maxLevels - 1
  /\ levels[config.maxLevels] # << >>

\* the data of the containers get looks into from level i on, in probe
\* order: level 0 from its last run to its first, the other levels in stored
\* order
RECURSIVE ContainersFrom(_)
ContainersFrom(i) ==
  IF i >= Len(levels) THEN << >>
  ELSE [j \in 1..Len(levels[i + 1]) |->
          IF i = 0 THEN levels[1][Len(levels[1]) + 1 - j].data
          ELSE levels[i + 1][j].data]
       \o ContainersFrom(i + 1)

\* the value that the first container holding key holds for it
FirstMatch(key) ==
  LET cs == <<memtable.data>> \o ContainersFrom(0)
      holders == {x \in 1..Len(cs) : MapHas(cs[x], key)}
  IN  IF holders = {} THEN Undefined
      ELSE MapGet(cs[CHOOSE x \in holders : \A y \in holders : x <= y], key)

\* C26: get returns the first match in probe order: the value, TOMBSTONE
\* included, that the first container holding the key holds for it, in the
\* order write buffer, level-0 runs from newest to oldest, levels 1 and up in
\* stored order, and absent only if no container holds the key.
C26_FirstMatchInProbeOrder ==
  \A key \in Keys : Read(key).value = FirstMatch(key)

InSeq(t, runs) == \E x \in 1..Len(runs) : runs[x] = t

\* the range of run t overlaps the range of one of the runs
OverlapsAny(t, runs) == \E x \in 1..Len(runs) : RangesIntersect(t, runs[x])

\* C27: a manual compact(0) on a level 0 that holds runs takes all of them,
\* also when level 0 is within its capacity: afterwards level 0 is empty,
\* every run of level 1 whose range overlaps a selected run was removed and
\* merged, and every run of level 1 that overlaps none was left in place.
C27_ManualCompactTakesAll ==
  (lastOp.kind = "compact" /\ lastOp.level = 0 /\ events # << >>)
  => LET ev == events[1]
     IN  /\ IsCompaction(ev) /\ ev.level = 0
         /\ levels[1] = << >>
         /\ ev.source # << >>
         /\ \A x \in 1..Len(ev.targetBefore) :
              LET t == ev.targetBefore[x]
              IN  IF OverlapsAny(t, ev.source)
                  THEN InSeq(t, ev.overlapping)
                  ELSE InSeq(t, ev.targetAfter) /\ ~ InSeq(t, ev.overlapping)
         /\ Len(ev.targetAfter)
              = Len(ev.targetBefore) - Len(ev.overlapping) + ev.created

\* the runs are in ascending order of minKey, keys compared as strings
SortedByMinKey(runs) ==
  \A p, q \in 1..Len(runs) : p < q => runs[p].minKey <= runs[q].minKey

\* C28: after every compaction, and in every state between the public
\* operations, the run list of each level >= 1 is sorted ascending by minKey.
C28_LevelsSortedByMinKey ==
  /\ \A i \in 2..Len(levels) : SortedByMinKey(levels[i])
  /\ \A x \in 1..Len(events) :
       IsCompaction(events[x]) => SortedByMinKey(events[x].targetAfter)

\* the entries of the runs, one run after the other
RECURSIVE ConcatData(_, _)
ConcatData(runs, i) ==
  IF i > Len(runs) THEN << >> ELSE runs[i].data \o ConcatData(runs, i + 1)

\* every run of the level holds between 1 and max entries
RunSizesWithin(i, max) ==
  \A t \in Runs(i) : Len(t.data) >= 1 /\ Len(t.data) <= max

\* the runs a compaction created are the consecutive chunks of its output:
\* ceil(n / sstableMaxItems) runs, all full but the last, none empty
ChunksOfOutput(ev) ==
  /\ Len(ev.chunks) = (Len(ev.final) + config.sstableMaxItems - 1)
                        \div config.sstableMaxItems
  /\ ConcatData(ev.chunks, 1) = ev.final
  /\ \A x \in 1..Len(ev.chunks) :
       /\ Len(ev.chunks[x].data) >= 1
       /\ Len(ev.chunks[x].data) <= config.sstableMaxItems
       /\ x < Len(ev.chunks) => Len(ev.chunks[x].data) = config.sstableMaxItems
       /\ ~ Falsy(ev.chunks[x].minKey) /\ ~ Falsy(ev.chunks[x].maxKey)

\* C29: every run of a level >= 1 holds between 1 and sstableMaxItems
\* entries, every run of level 0 between 1 and memtableMaxSize, and a
\* compaction with n output entries creates ceil(n / sstableMaxItems) runs
\* that are the consecutive chunks of the output in ascending key order.
C29_RunSizesAndChunks ==
  /\ RunSizesWithin(0, config.memtableMaxSize)
  /\ \A i \in 1..(Len(levels) - 1) : RunSizesWithin(i, config.sstableMaxItems)
  /\ \A x \in 1..Len(events) :
       IsCompaction(events[x]) =>
         /\ ChunksOfOutput(events[x])
         /\ \A p \in 1..(Len(events[x].final) - 1) :
              events[x].final[p][1] < events[x].final[p + 1][1]

\* the number of entries of the runs created by the events evs[x..]
RECURSIVE EntriesCreated(_, _)
EntriesCreated(evs, x) ==
  IF x > Len(evs) THEN 0
  ELSE (IF IsCompaction(evs[x]) THEN Len(ConcatData(evs[x].chunks, 1))
        ELSE Len(evs[x].run.data))
       + EntriesCreated(evs, x + 1)

\* C30: itemsWrittenToSSTables is the number of entries of all runs created,
\* by flush or by compaction, since construction or the last reset: a reset
\* sets it to 0 and every other call adds the entries of the runs it creates.
C30_WriteAccounting ==
  [][nops' = nops + 1
     => metrics'.itemsWrittenToSSTables =
          IF lastOp'.kind = "reset" /\ ~ lastOp'.raised THEN 0
          ELSE metrics.itemsWrittenToSSTables + EntriesCreated(events', 1)]_vars

\* the number of entries the runs of the levels from i on hold
RECURSIVE EntriesHeld(_)
EntriesHeld(i) ==
  IF i > Len(levels) THEN 0
  ELSE EntriesFrom(levels, i, 1) + EntriesHeld(i + 1)

\* a call has returned after a compaction, with more entries written than
\* the runs hold
C30_Witness ==
  /\ Compactions(events) >= 1
  /\ metrics.itemsWrittenToSSTables >= 3
  /\ metrics.itemsWrittenToSSTables > EntriesHeld(1)

\* the number of steps of a probe path that are runs
RunSteps(path) ==
  Cardinality({p \in 1..Len(path) : path[p].component = "SSTable"})

\* C31: every get with a non-empty key adds exactly 1 to logicalReads and to
\* memtableLookupsForRead, which are therefore equal in every state, and adds
\* to sstablesAccessedForRead the number of runs in the probe path it
\* returns; a run skipped as out of range is neither counted nor listed.
C31_ReadAccounting ==
  [][/\ metrics'.logicalReads = metrics'.memtableLookupsForRead
     /\ (nops' = nops + 1 /\ lastOp'.kind = "get" /\ ~ Falsy(lastOp'.key))
        => /\ metrics'.logicalReads = metrics.logicalReads + 1
           /\ metrics'.memtableLookupsForRead = metrics.memtableLookupsForRead + 1
           /\ metrics'.sstablesAccessedForRead
                = metrics.sstablesAccessedForRead + RunSteps(lastOp'.result.path)
           /\ Len(lastOp'.result.path) = 1 + RunSteps(lastOp'.result.path)
           /\ \A p \in 2..Len(lastOp'.result.path) :
                LET step == lastOp'.result.path[p]
                IN  \E t \in Runs(step.level) :
                      /\ t.id = step.id
                      /\ step.level > 0
                           => (lastOp'.key >= t.minKey /\ lastOp'.key <= t.maxKey)]_vars

\* a get has returned a value found in level 2 after skipping a run of
\* level 1
C31_Witness ==
  /\ lastOp.kind = "get"
  /\ lastOp.result.value \in Values
  /\ levels[2] # << >>
  /\ Len(lastOp.result.path) = 2
  /\ lastOp.result.path[2].level = 2

\* C32: the metrics are monotone: no call of put, delete, get, flushMemTable
\* or compact (nor getState) lowers logicalWrites, itemsWrittenToSSTables,
\* logicalReads, sstablesAccessedForRead or memtableLookupsForRead; only
\* reset sets them, to 0.
C32_MetricsMonotone ==
  [][IF lastOp'.kind = "reset" /\ nops' = nops + 1 /\ ~ lastOp'.raised
     THEN \A m \in DOMAIN metrics' : metrics'[m] = 0
     ELSE /\ DOMAIN metrics' = DOMAIN metrics
          /\ \A m \in DOMAIN metrics : metrics'[m] >= metrics[m]]_vars

\* a compaction has returned in an engine that has counted writes, reads and
\* entries written
C32_Witness ==
  /\ lastOp.kind = "compact"
  /\ Compactions(events) >= 1
  /\ metrics.logicalWrites > 0
  /\ metrics.logicalReads > 0
  /\ metrics.itemsWrittenToSSTables > 1

\* C33: delete(k) is put(k, TOMBSTONE): from every reachable state and for
\* every non-empty key the two calls, given the same id draw, leave the same
\* write buffer, the same levels (flush and compactions they trigger
\* included) and the same metrics, and either both are refused or neither.
C33_DeleteIsPutTombstone ==
  \A key \in Keys : \A rs \in Rand :
    LET d == LSMDelete(Engine(rs), key)
        p == LSMPut(Engine(rs), key, TOMBSTONE)
    IN  /\ d.memtable = p.memtable
        /\ d.levels = p.levels
        /\ d.metrics = p.metrics
        /\ d.events = p.events
        /\ d.rejected = p.rejected

\* a delete has flushed the buffer and set off a compaction
C33_Witness ==
  /\ lastOp.kind = "delete"
  /\ Compactions(events) >= 1
  /\ memtable.data = << >>
  /\ \E i \in 1..(config.maxLevels - 1) : levels[i + 1] # << >>

\* C34: persistence round trip: once the page has been initialised again from
\* the state saved in local storage, the engine instance holds the buffer and
\* the levels of the tree state displayed, so that a get of a key shown in
\* the restored buffer view returns the value shown for it.
C34_RestoredEngineHoldsView ==
  lastOp.kind = "clientInit" =>
    /\ page.treeState.memtable = GetState(Engine(0)).memtable
    /\ page.treeState.levels = GetState(Engine(0)).levels
    /\ \A p \in 1..Len(page.treeState.memtable) :
         GetResult(memtable, levels, page.treeState.memtable[p][1]).value
           = page.treeState.memtable[p][2]

\* the handlers that end with updateState
UpdatingHandlers ==
  {"handleWrite", "handleDelete", "handleRead", "compactTimer",
   "handleResetTree", "handleSaveSettings"}

\* C39: the page never shows a stale engine: whatever handlers ran, also a
\* Reset Tree or Save Settings during the 50 ms delay of a manual compaction,
\* the delayed compaction acts on the current engine instance, and after
\* every handler that updates the display the tree state displayed is the
\* state of the current engine instance.
C39_DisplayShowsCurrentEngine ==
  [][(nops' = nops + 1 /\ lastOp'.kind \in UpdatingHandlers)
     => /\ lastOp'.kind = "compactTimer" => page'.acted = page'.instance
        /\ page'.treeState = GetState([config |-> config', memtable |-> memtable',
                                       levels |-> levels', log |-> log',
                                       metrics |-> metrics'])]_vars

\* the keys any history writes
AllKeys == Keys \cup SortKeys \cup GapKeys \cup TwinKeys \cup DeepKeys

\* C35: compaction is transparent to reads: for every level L and every key,
\* the value get returns after compact(L), cascade included, is the value it
\* returned before, except that a deleted key (tombstone found) may become
\* absent; a live value never changes or disappears and an absent or deleted
\* key never gains a value.
C35_CompactionTransparent ==
  [][(nops' = nops + 1 /\ lastOp'.kind = "compact" /\ ~ lastOp'.raised)
     => \A key \in AllKeys :
          LET before == GetResult(memtable, levels, key).value
              after  == GetResult(memtable', levels', key).value
          IN  \/ after = before
              \/ before = TOMBSTONE /\ after = Undefined]_vars

\* C36: in every level >= 1 each key appears in at most one run of the
\* level, also when the ranges of runs overlap.
C36_KeyInOneRunPerLevel ==
  \A i \in 2..Len(levels) :
    \A j1, j2 \in 1..Len(levels[i]) :
      j1 # j2 => RunKeys(levels[i][j1]) \cap RunKeys(levels[i][j2]) = {}

\* C37: get is read-only on the data: a get, of an empty key or not, leaves
\* the write buffer, every level's run list and the runs' contents, the
\* configuration and the two write counters unchanged; it changes only the
\* read counters and the log.
C37_GetIsReadOnly ==
  [][(nops' = nops + 1 /\ lastOp'.kind = "get")
     => /\ UNCHANGED <<memtable, levels, config>>
        /\ metrics'.logicalWrites = metrics.logicalWrites
        /\ metrics'.itemsWrittenToSSTables = metrics.itemsWrittenToSSTables]_vars

\* a get has found its key in a run of level 1 or deeper
C37_Witness ==
  /\ lastOp.kind = "get"
  /\ lastOp.result.value \in Values
  /\ Len(lastOp.result.path) >= 2
  /\ lastOp.result.path[Len(lastOp.result.path)].level >= 1
  /\ log[1] = "Key found."
  /\ metrics.sstablesAccessedForRead >= 1

\* C38: compact(L), called when no level shallower than L exceeds its
\* capacity, leaves the write buffer, logicalWrites, the three read counters
\* and every level shallower than L unchanged, cascade included; in level L
\* it only removes runs, and it adds or replaces runs in deeper levels only.
C38_CompactFrame ==
  [][(/\ nops' = nops + 1
      /\ lastOp'.kind = "compact"
      /\ ~ lastOp'.raised
      /\ \A i \in 0..(lastOp'.level - 1) :
           i < config.maxLevels - 1
             => Len(levels[i + 1]) <= MaxSSTablesInLevel(config, i))
     => /\ UNCHANGED <<memtable, config>>
        /\ metrics'.logicalWrites = metrics.logicalWrites
        /\ metrics'.logicalReads = metrics.logicalReads
        /\ metrics'.sstablesAccessedForRead = metrics.sstablesAccessedForRead
        /\ metrics'.memtableLookupsForRead = metrics.memtableLookupsForRead
        /\ Len(levels') = Len(levels)
        /\ \A i \in 1..Len(levels) :
             /\ i < lastOp'.level + 1 => levels'[i] = levels[i]
             /\ i = lastOp'.level + 1
                  => /\ Len(levels'[i]) <= Len(levels[i])
                     /\ \A j \in 1..Len(levels'[i]) : InSeq(levels'[i][j], levels[i])]_vars

\* compact(1) has moved a run from level 1 to level 2 under a level 0 that
\* holds a run
C38_Witness ==
  /\ lastOp.kind = "compact"
  /\ lastOp.level = 1
  /\ Compactions(events) >= 1
  /\ levels[1] # << >>
  /\ Len(levels) >= 3
  /\ levels[3] # << >>

\* C40: every run in level i's run list carries the level tag i, so that the
\* merge order of a compaction, by ascending level tag, places every
\* source-level run before every target-level run.
C40_LevelTags ==
  /\ \A i \in 1..Len(levels) : \A j \in 1..Len(levels[i]) :
       levels[i][j].level = i - 1
  /\ \A x \in 1..Len(events) :
       IsCompaction(events[x]) =>
         LET ev == events[x]
             sorted == SortForMerge(ev.source \o ev.overlapping)
         IN  \A p \in 1..Len(sorted) :
               /\ p <= Len(ev.source)
                    => sorted[p].level = ev.level /\ InSeq(sorted[p], ev.source)
               /\ p > Len(ev.source)
                    => sorted[p].level = ev.level + 1
                       /\ InSeq(sorted[p], ev.overlapping)

\* a compaction has merged a level-0 run with a level-1 run and left its
\* output in level 1
C40_Witness ==
  /\ Len(events) >= 1
  /\ IsCompaction(events[Len(events)])
  /\ Len(events[Len(events)].source) >= 1
  /\ Len(events[Len(events)].overlapping) >= 1
  /\ levels[2] # << >>
  /\ levels[2][1].level = 1

====
